---- MODULE Spec2Model ----
(***************************************************************************)
(* Model of the LP input pipeline of juliovasseur/Quant_training:          *)
(*   LP/src/lpSolver/parsing.py       parse_linear_expr, parse_data_dir    *)
(*   LP/src/lpSolver/model_arrays.py  build_model_arrays                   *)
(*                                                                         *)
(* Text is modelled as it is in Python: a str is a sequence of characters  *)
(* (one-character strings), None is the distinguished value NoneStr, and   *)
(* a float is one of a finite number, +inf, -inf or nan.                   *)
(***************************************************************************)
EXTENDS Integers, Sequences, FiniteSets, TLC

VARIABLES
    pc,          \* position of the pipeline (which loop of parse_data_dir runs)
    line,        \* the loop counter i of the running table loop (starts at 2)
    vars_rows,   \* parse_data_dir: vars_rows, the records the loop has visited
    obj_rows,    \* parse_data_dir: obj_rows, the records the loop has visited
    con_rows,    \* parse_data_dir: con_rows, the records the loop has visited
    variables,   \* parse_data_dir: variables, an insertion-ordered dict
    obj_coeffs,  \* parse_data_dir: obj_coeffs, an insertion-ordered dict
    senses,      \* parse_data_dir: senses, a set
    constraints, \* parse_data_dir: constraints, a list of dicts
    seen_names,  \* parse_data_dir: seen_names, a set
    warnings,    \* the AVERTISSEMENT lines printed to stderr
    error,       \* the exception that left parse_data_dir, if any
    objective,   \* parse_data_dir: objective, once the objective table is read
    obj_path,    \* parse_data_dir: obj_path, the objective file that was found
    arrays,      \* the LPModelData returned by build_model_arrays, if any
    expr,        \* argument of a direct call of parse_linear_expr
    result       \* what that call returned or raised

vars == <<pc, line, vars_rows, obj_rows, con_rows, variables, obj_coeffs, senses, constraints, seen_names,
          warnings, error, objective, obj_path, arrays, expr, result>>

\* the records visited so far
tables == <<vars_rows, obj_rows, con_rows>>

----------------------------------------------------------------------------
(* Bounds of the model.                                                    *)

MaxExprLen == 4
MaxVarRows == 2
MaxObjRows == 2
MaxConRows == 3

----------------------------------------------------------------------------
(* Python values: None, characters, str methods.                           *)

NoneStr == <<"<None>">>

Digits == {"0", "1", "2", "3", "4", "5", "6", "7", "8", "9"}

LowerLetters ==
    {"a", "b", "c", "d", "e", "f", "g", "h", "i", "j", "k", "l", "m",
     "n", "o", "p", "q", "r", "s", "t", "u", "v", "w", "x", "y", "z"}

UpperLetters ==
    {"A", "B", "C", "D", "E", "F", "G", "H", "I", "J", "K", "L", "M",
     "N", "O", "P", "Q", "R", "S", "T", "U", "V", "W", "X", "Y", "Z"}

Whitespace == {" "}

\* the character U+2212 (MINUS SIGN)
UMinus == "U+2212"

LowerChar(c) ==
    CASE c = "A" -> "a" [] c = "B" -> "b" [] c = "C" -> "c" [] c = "D" -> "d"
      [] c = "E" -> "e" [] c = "F" -> "f" [] c = "G" -> "g" [] c = "H" -> "h"
      [] c = "I" -> "i" [] c = "J" -> "j" [] c = "K" -> "k" [] c = "L" -> "l"
      [] c = "M" -> "m" [] c = "N" -> "n" [] c = "O" -> "o" [] c = "P" -> "p"
      [] c = "Q" -> "q" [] c = "R" -> "r" [] c = "S" -> "s" [] c = "T" -> "t"
      [] c = "U" -> "u" [] c = "V" -> "v" [] c = "W" -> "w" [] c = "X" -> "x"
      [] c = "Y" -> "y" [] c = "Z" -> "z" [] OTHER -> c

\* str.lower()
Lower(s) == [i \in 1..Len(s) |-> LowerChar(s[i])]

DigitVal(c) ==
    CASE c = "0" -> 0 [] c = "1" -> 1 [] c = "2" -> 2 [] c = "3" -> 3
      [] c = "4" -> 4 [] c = "5" -> 5 [] c = "6" -> 6 [] c = "7" -> 7
      [] c = "8" -> 8 [] c = "9" -> 9

DigitChar(d) ==
    CASE d = 0 -> "0" [] d = 1 -> "1" [] d = 2 -> "2" [] d = 3 -> "3"
      [] d = 4 -> "4" [] d = 5 -> "5" [] d = 6 -> "6" [] d = 7 -> "7"
      [] d = 8 -> "8" [] d = 9 -> "9"

RECURSIVE DecVal(_)
\* value of a non-empty string of decimal digits
DecVal(s) ==
    IF Len(s) = 1 THEN DigitVal(s[1])
    ELSE 10 * DecVal(SubSeq(s, 1, Len(s) - 1)) + DigitVal(s[Len(s)])

RECURSIVE Str(_)
\* str(n) / f"{n}" of a natural number
Str(n) == IF n < 10 THEN <<DigitChar(n)>> ELSE Str(n \div 10) \o <<DigitChar(n % 10)>>

RECURSIVE Replace(_, _, _)
\* str.replace(old, new) for a one-character old
Replace(s, old, new) ==
    IF s = <<>> THEN <<>>
    ELSE (IF Head(s) = old THEN new ELSE <<Head(s)>>) \o Replace(Tail(s), old, new)

RECURSIVE Split(_, _)
\* str.split(sep) for a one-character sep
Split(s, sep) ==
    IF \A i \in 1..Len(s) : s[i] # sep THEN <<s>>
    ELSE LET i == CHOOSE j \in 1..Len(s) :
                      s[j] = sep /\ \A k \in 1..(j - 1) : s[k] # sep
         IN  <<SubSeq(s, 1, i - 1)>> \o Split(SubSeq(s, i + 1, Len(s)), sep)

RECURSIVE LStrip(_)
LStrip(s) == IF s # <<>> /\ Head(s) \in Whitespace THEN LStrip(Tail(s)) ELSE s

RECURSIVE RStrip(_)
RStrip(s) ==
    IF s # <<>> /\ s[Len(s)] \in Whitespace THEN RStrip(SubSeq(s, 1, Len(s) - 1)) ELSE s

\* str.strip()
Strip(s) == RStrip(LStrip(s))

----------------------------------------------------------------------------
(* Python floats.                                                          *)

Fin(n) == [k |-> "fin", v |-> n]
NaN == [k |-> "nan", v |-> 0]
PInf == [k |-> "inf", v |-> 1]
NInf == [k |-> "inf", v |-> -1]
NoneVal == [k |-> "none", v |-> 0]

FNeg(a) == IF a.k = "nan" THEN a ELSE [k |-> a.k, v |-> -a.v]

FAdd(a, b) ==
    IF a.k = "nan" \/ b.k = "nan" THEN NaN
    ELSE IF a.k = "inf" /\ b.k = "inf" THEN (IF a.v = b.v THEN a ELSE NaN)
    ELSE IF a.k = "inf" THEN a
    ELSE IF b.k = "inf" THEN b
    ELSE Fin(a.v + b.v)

FSub(a, b) == FAdd(a, FNeg(b))

\* a < b
FLt(a, b) ==
    IF a.k = "nan" \/ b.k = "nan" THEN FALSE
    ELSE IF a.k = "inf" THEN a.v = -1 /\ b # NInf
    ELSE IF b.k = "inf" THEN b.v = 1
    ELSE a.v < b.v

\* a == b
FEq(a, b) == a.k # "nan" /\ b.k # "nan" /\ a = b

\* a <= b
FLe(a, b) == FLt(a, b) \/ FEq(a, b)

S_nan == <<"n", "a", "n">>
S_inf == <<"i", "n", "f">>
S_infinity == <<"i", "n", "f", "i", "n", "i", "t", "y">>

\* float() of an unsigned body; neg says that a "-" came before it
PyFloatBody(body, neg) ==
    IF body # <<>> /\ \A i \in 1..Len(body) : body[i] \in Digits
    THEN [ok |-> TRUE, val |-> Fin(IF neg THEN -DecVal(body) ELSE DecVal(body))]
    ELSE IF Lower(body) = S_nan THEN [ok |-> TRUE, val |-> NaN]
    ELSE IF Lower(body) \in {S_inf, S_infinity}
    THEN [ok |-> TRUE, val |-> IF neg THEN NInf ELSE PInf]
    ELSE [ok |-> FALSE, val |-> NaN]

\* float() of a str without blanks around it
PyFloatStripped(t) ==
    IF t # <<>> /\ t[1] \in {"+", "-"} THEN PyFloatBody(Tail(t), t[1] = "-")
    ELSE PyFloatBody(t, FALSE)

\* float(s) for a str over digits, signs, letters and blanks:
\* [ok |-> FALSE] stands for ValueError
PyFloat(s) == PyFloatStripped(Strip(s))

----------------------------------------------------------------------------
(* parsing.py: parse_linear_expr.                                          *)

IsIdentStart(c) == c \in LowerLetters \cup UpperLetters \cup {"_"}
IsIdentChar(c) == IsIdentStart(c) \/ c \in Digits

\* _VAR_NAME_RE.search(term): leftmost match, greedy;
\* start = 0 stands for no match
VarNameSearch(term) ==
    IF \A i \in 1..Len(term) : ~IsIdentStart(term[i])
    THEN [start |-> 0, stop |-> 0]
    ELSE LET st == CHOOSE i \in 1..Len(term) :
                       IsIdentStart(term[i])
                       /\ \A j \in 1..(i - 1) : ~IsIdentStart(term[j])
             en == CHOOSE e \in st..Len(term) :
                       /\ \A j \in st..e : IsIdentChar(term[j])
                       /\ (e = Len(term) \/ ~IsIdentChar(term[e + 1]))
         IN  [start |-> st, stop |-> en]

\* dict lookup / update on an insertion-ordered dict kept as a sequence of
\* [var, coeff] items
DictHas(d, key) == \E i \in 1..Len(d) : d[i].var = key

DictGet(d, key, default) ==
    IF DictHas(d, key) THEN d[CHOOSE i \in 1..Len(d) : d[i].var = key].coeff
    ELSE default

DictSet(d, key, val) ==
    IF DictHas(d, key)
    THEN [i \in 1..Len(d) |-> IF d[i].var = key THEN [var |-> key, coeff |-> val] ELSE d[i]]
    ELSE Append(d, [var |-> key, coeff |-> val])

DictKeys(d) == {d[i].var : i \in 1..Len(d)}

ExprError(kind) == [ok |-> FALSE, err |-> kind, coeffs |-> <<>>, const |-> Fin(0)]

\* lines 108-116: the coefficient that the text before the identifier
\* stands for; [ok |-> FALSE] stands for the ValueError of float()
Coefficient(coeff_str) ==
    IF coeff_str \in {<<>>, <<"+">>} THEN [ok |-> TRUE, val |-> Fin(1)]
    ELSE IF coeff_str = <<"-">> THEN [ok |-> TRUE, val |-> Fin(-1)]
    ELSE PyFloat(coeff_str)

\* lines 113-117: coeffs[var] = coeffs.get(var, 0.0) + coeff
Accumulate(coeffs, var, c, const_sum) ==
    IF ~c.ok THEN ExprError("coeff non numerique")
    ELSE [ok |-> TRUE, err |-> "",
          coeffs |-> DictSet(coeffs, var, FAdd(DictGet(coeffs, var, Fin(0)), c.val)),
          const |-> const_sum]

\* lines 119-124: const_sum += float(term.replace("*", ""))
AddConstant(f, coeffs, const_sum) ==
    IF ~f.ok THEN ExprError("ni variable ni constante")
    ELSE [ok |-> TRUE, err |-> "", coeffs |-> coeffs, const |-> FAdd(const_sum, f.val)]

\* lines 105-124 for the match m of _VAR_NAME_RE in term
TermMatched(term, m, coeffs, const_sum) ==
    IF m.start # 0
    THEN Accumulate(coeffs, SubSeq(term, m.start, m.stop),
                    Coefficient(Strip(Replace(SubSeq(term, 1, m.start - 1), "*", <<>>))),
                    const_sum)
    ELSE AddConstant(PyFloat(Replace(term, "*", <<>>)), coeffs, const_sum)

\* one pass of the loop "for term in parts" (lines 103-124)
ParseTerm(term, coeffs, const_sum) ==
    TermMatched(term, VarNameSearch(term), coeffs, const_sum)

RECURSIVE TermLoop(_, _, _)
RECURSIVE TermStep(_, _)
\* the loop goes on after a term unless the term raised
TermStep(rest, r) == IF ~r.ok THEN r ELSE TermLoop(rest, r.coeffs, r.const)

\* for term in parts
TermLoop(parts, coeffs, const_sum) ==
    IF parts = <<>> THEN [ok |-> TRUE, err |-> "", coeffs |-> coeffs, const |-> const_sum]
    ELSE TermStep(Tail(parts), ParseTerm(Head(parts), coeffs, const_sum))

\* abs(c) > 0.0
AbsPositive(c) == c.k = "inf" \/ (c.k = "fin" /\ c.v # 0)

\* s.replace(U+2212, "-").replace("-", "+-").split("+")
ExprPieces(expression) ==
    Split(Replace(Replace(expression, UMinus, <<"-">>), "-", <<"+", "-">>), "+")

\* [p.strip() for p in pieces if p.strip() != ""]
StripNonEmpty(pieces) ==
    SelectSeq([i \in 1..Len(pieces) |-> Strip(pieces[i])], LAMBDA p : p # <<>>)

\* parts = [p.strip() for p in s.split("+") if p.strip() != ""]
ExprParts(expression) == StripNonEmpty(ExprPieces(expression))

\* lines 126-129 for the outcome r of the loop and the filtered coeffs
ExprResult(r, kept) ==
    IF ~r.ok THEN r
    ELSE IF kept = <<>> /\ FEq(r.const, Fin(0))
    THEN ExprError("Expression sans variables ni constantes")
    ELSE [ok |-> TRUE, err |-> "", coeffs |-> kept, const |-> r.const]

\* coeffs = {v: c for v, c in coeffs.items() if abs(c) > 0.0}
DropZeros(coeffs) == SelectSeq(coeffs, LAMBDA e : AbsPositive(e.coeff))

\* lines 126-129 for the outcome r of the loop
ExprFinish(r) == ExprResult(r, DropZeros(r.coeffs))

\* lines 97-129 for the list parts
ExprOfParts(parts) ==
    IF parts = <<>> THEN ExprError("Expression invalide")
    ELSE ExprFinish(TermLoop(parts, <<>>, Fin(0)))

\* parse_linear_expr(expr): [ok |-> TRUE, coeffs, const] is the returned
\* pair, [ok |-> FALSE, err] the ParseError raised
parse_linear_expr(expression) ==
    IF expression = NoneStr THEN ExprError("Expression vide")
    ELSE ExprOfParts(ExprParts(expression))

----------------------------------------------------------------------------
(* parsing.py: exceptions, files, _read_csv_dicts, _parse_float.            *)

\* No exception, and an exception that left the pipeline.  path and lineno
\* are what the message names ("" and 0 when it names none); rec_path and
\* rec_line are the table and the line of the record that was being
\* validated when it was raised ("" and 0 when no record was).
NoError == [kind |-> "none", path |-> "", lineno |-> 0, rec_path |-> "", rec_line |-> 0]

Raised(kind, path, lineno, rec_path, rec_line) ==
    [kind |-> kind, path |-> path, lineno |-> lineno,
     rec_path |-> rec_path, rec_line |-> rec_line]

data_dir == "data"
var_path == "data/variables.csv"
con_path == "data/constraints.csv"
objective_csv == "data/objective.csv"
objectives_csv == "data/objectives.csv"

\* What the file system holds: is data_dir a directory, which files exist.
FsStates ==
    [dir : BOOLEAN, variables : BOOLEAN, objective : BOOLEAN,
     objectives : BOOLEAN, constraints : BOOLEAN]

\* _first_existing(objective.csv, objectives.csv): "" stands for the
\* ParseError raised when neither exists
_first_existing(fs) ==
    IF fs.objective THEN objective_csv
    ELSE IF fs.objectives THEN objectives_csv
    ELSE ""

\* lines 146-157 of parse_data_dir: the exception raised, or NoError
OpenError(fs) ==
    IF ~fs.dir THEN Raised("ParseError", data_dir, 0, "", 0)
    ELSE IF _first_existing(fs) = "" THEN Raised("ParseError", objective_csv, 0, "", 0)
    ELSE IF ~fs.variables THEN Raised("ParseError", var_path, 0, "", 0)
    ELSE IF ~fs.constraints THEN Raised("ParseError", con_path, 0, "", 0)
    ELSE NoError

\* What a table file holds, as far as _read_csv_dicts looks at it before
\* the rows: fieldnames is "None" (no line at all), "complete" (every
\* required header) or "incomplete"; fault is what reading the file raises.
CsvFiles ==
    [fieldnames : {"None", "complete", "incomplete"},
     fault : {"none", "csv.Error", "UnicodeDecodeError"}]

\* _read_csv_dicts(path, required_headers): the exception raised, or NoError.
\* Only csv.Error is caught and turned into ParseError.
_read_csv_dicts(path, file) ==
    IF file.fault = "csv.Error" THEN Raised("ParseError", path, 0, "", 0)
    ELSE IF file.fault = "UnicodeDecodeError" THEN Raised("UnicodeDecodeError", "", 0, "", 0)
    ELSE IF file.fieldnames = "None" THEN Raised("ParseError", path, 0, "", 0)
    ELSE IF file.fieldnames = "incomplete" THEN Raised("ParseError", path, 0, "", 0)
    ELSE NoError

\* clean = {k: (v.strip() if isinstance(v, str) else v) for k, v in row.items()}
CleanRow(row) ==
    [f \in DOMAIN row |-> IF row[f] = NoneStr THEN NoneStr ELSE Strip(row[f])]

\* _parse_float(field, value, path, line_no, allow_empty):
\* raised is "none", "ParseError" (from ValueError) or "TypeError" (float(None))
_parse_float(value, allow_empty) ==
    IF value = <<>> /\ allow_empty THEN [raised |-> "none", val |-> NoneVal]
    ELSE IF value = NoneStr THEN [raised |-> "TypeError", val |-> NoneVal]
    ELSE IF PyFloat(value).ok THEN [raised |-> "none", val |-> PyFloat(value).val]
    ELSE [raised |-> "ParseError", val |-> NoneVal]

\* "not s" for a str or None
Falsy(s) == s = NoneStr \/ s = <<>>

----------------------------------------------------------------------------
(* parsing.py: parse_data_dir, the variables table (lines 159-184).        *)

S_continuous == <<"c", "o", "n", "t", "i", "n", "u", "o", "u", "s">>
S_integer == <<"i", "n", "t", "e", "g", "e", "r">>
S_binary == <<"b", "i", "n", "a", "r", "y">>

allowed_types == {S_continuous, S_integer, S_binary}

VarNames(vs) == {vs[j].name : j \in 1..Len(vs)}

\* if up is not None and up < low
BoundCheckFails(low, up) == up # NoneVal /\ FLt(up, low)

\* name in variables
Declared(name, vs) == name \in VarNames(vs)

\* one pass of "for i, row in enumerate(vars_rows, start=2)"
variables_row(row, i, vs) ==
    LET name == row.name
        vtype == IF Falsy(row.type) THEN S_continuous ELSE Lower(row.type)
        lo == _parse_float(row.low, TRUE)
        hi == _parse_float(row.up, TRUE)
        low == IF lo.val = NoneVal THEN Fin(0) ELSE lo.val
        up == hi.val
        perr == Raised("ParseError", var_path, i, var_path, i)
    IN  IF Falsy(name) THEN [error |-> perr, variables |-> vs]
        ELSE IF Declared(name, vs) THEN [error |-> perr, variables |-> vs]
        ELSE IF vtype \notin allowed_types THEN [error |-> perr, variables |-> vs]
        ELSE IF lo.raised = "TypeError"
        THEN [error |-> Raised("TypeError", "", 0, var_path, i), variables |-> vs]
        ELSE IF lo.raised = "ParseError" THEN [error |-> perr, variables |-> vs]
        ELSE IF hi.raised = "TypeError"
        THEN [error |-> Raised("TypeError", "", 0, var_path, i), variables |-> vs]
        ELSE IF hi.raised = "ParseError" THEN [error |-> perr, variables |-> vs]
        ELSE IF BoundCheckFails(low, up) THEN [error |-> perr, variables |-> vs]
        ELSE [error |-> NoError,
              variables |-> Append(vs, [name |-> name, low |-> low, up |-> up,
                                        type |-> vtype])]

----------------------------------------------------------------------------
(* parsing.py: parse_data_dir, the objective table (lines 186-209).        *)

S_min == <<"m", "i", "n">>
S_max == <<"m", "a", "x">>

\* one pass of "for i, row in enumerate(obj_rows, start=2)"
objective_row(row, i, path, vs, coeffs, sns) ==
    LET var == row.var
        c == _parse_float(row.coeff, FALSE)
        sense == IF Falsy(row.sense) THEN <<>> ELSE Lower(row.sense)
        perr == Raised("ParseError", path, i, path, i)
        keep == [obj_coeffs |-> coeffs, senses |-> sns]
    IN  IF Falsy(var) THEN [error |-> perr] @@ keep
        ELSE IF ~Declared(var, vs) THEN [error |-> perr] @@ keep
        ELSE IF c.raised = "TypeError"
        THEN [error |-> Raised("TypeError", "", 0, path, i)] @@ keep
        ELSE IF c.raised = "ParseError" THEN [error |-> perr] @@ keep
        ELSE IF sense \notin {S_min, S_max} THEN [error |-> perr] @@ keep
        ELSE IF DictHas(coeffs, var) THEN [error |-> perr] @@ keep
        ELSE [error |-> NoError, obj_coeffs |-> DictSet(coeffs, var, c.val),
              senses |-> sns \cup {sense}]

NoObjective == [sense |-> <<>>, coeffs |-> <<>>]

\* lines 205-209: the exception raised after the loop, or NoError
objective_end(path, coeffs, sns) ==
    IF coeffs = <<>> THEN Raised("ParseError", path, 0, "", 0)
    ELSE IF Cardinality(sns) # 1 THEN Raised("ParseError", path, 0, "", 0)
    ELSE NoError

----------------------------------------------------------------------------
(* parsing.py: parse_data_dir, the constraints table (lines 211-272).      *)

S_le == <<"<", "=">>
S_ge == <<">", "=">>
S_eq == <<"=", "=">>

\* orig_name = (row["name"] or "").strip(); if not orig_name: f"c_{i}"
RequestedName(row, i) ==
    LET n == IF Falsy(row.name) THEN <<>> ELSE Strip(row.name)
    IN  IF n = <<>> THEN <<"c", "_">> \o Str(i) ELSE n

\* RenameLoop without the loop: the first suffix is taken unchecked
RenameLoop_Unchecked(base, k, seen) == base \o <<"#">> \o Str(k)

RECURSIVE RenameLoop(_, _, _)
\* while name in seen_names: name = f"{base}#{k}"; k += 1
\* entered with k, leaves with the first base#k that is not seen
RenameLoop(base, k, seen) ==
    LET name == base \o <<"#">> \o Str(k)
    IN  IF name \in seen THEN RenameLoop(base, k + 1, seen) ELSE name

\* CanonicalName with the suffixes starting at k = 3
CanonicalName_FromThree(orig_name, seen) ==
    IF orig_name \in seen THEN RenameLoop(orig_name, 3, seen) ELSE orig_name

\* lines 221-227: the canonical name of a record that requests orig_name
CanonicalName(orig_name, seen) ==
    IF orig_name \in seen THEN RenameLoop(orig_name, 2, seen) ELSE orig_name

\* HasUndeclared that looks at no variable
HasUndeclared_Never(coeffs, vs) == FALSE

\* "for v in coeffs: if v not in variables: raise"
HasUndeclared(coeffs, vs) == \E j \in 1..Len(coeffs) : ~Declared(coeffs[j].var, vs)

\* lines 228-233: the warning printed on a rename
Warned(orig_name, name, i, seen, warns) ==
    IF orig_name \in seen
    THEN Append(warns, [lineno |-> i, orig_name |-> orig_name, name |-> name])
    ELSE warns

\* lines 235-263 of the pass, for the names of lines 216-233, the parsed
\* rhs r and the parsed expr e
constraint_checked(row, i, vs, cons, orig_name, name, r, e) ==
    LET sense == IF Falsy(row.sense) THEN <<>> ELSE Strip(row.sense)
        perr == Raised("ParseError", con_path, i, con_path, i)
    IN  IF sense \notin {S_le, S_ge, S_eq} THEN [error |-> perr, constraints |-> cons]
        ELSE IF r.raised = "TypeError"
        THEN [error |-> Raised("TypeError", "", 0, con_path, i), constraints |-> cons]
        ELSE IF r.raised = "ParseError" THEN [error |-> perr, constraints |-> cons]
        ELSE IF ~e.ok
        THEN [error |-> Raised("ParseError", "", 0, con_path, i), constraints |-> cons]
        ELSE IF HasUndeclared(e.coeffs, vs) THEN [error |-> perr, constraints |-> cons]
        ELSE [error |-> NoError,
              constraints |->
                  Append(cons, [name |-> name, original_name |-> orig_name,
                                sense |-> sense, rhs |-> FSub(r.val, e.const),
                                coeffs |-> e.coeffs, raw_expr |-> row.expr,
                                raw_rhs |-> r.val, moved_const |-> e.const])]

\* lines 216-233 of the pass, for the requested name orig_name
constraint_named(row, i, vs, cons, seen, warns, orig_name, name) ==
    [seen_names |-> seen \cup {name},
     warnings |-> Warned(orig_name, name, i, seen, warns)]
    @@ constraint_checked(row, i, vs, cons, orig_name, name,
                          _parse_float(row.rhs, FALSE), parse_linear_expr(row.expr))

\* one pass of "for i, row in enumerate(con_rows, start=2)"
constraint_row(row, i, vs, cons, seen, warns) ==
    constraint_named(row, i, vs, cons, seen, warns, RequestedName(row, i),
                     CanonicalName(RequestedName(row, i), seen))

----------------------------------------------------------------------------
(* model_arrays.py: build_model_arrays.                                    *)

\* var_names = list(model["variables"].keys())
VarNameList(vs) == [j \in 1..Len(vs) |-> vs[j].name]

\* VarIndex that counts from 1
VarIndex_FromOne(var_names) ==
    [n \in {var_names[j] : j \in 1..Len(var_names)} |->
        CHOOSE j \in 1..Len(var_names) : var_names[j] = n]

\* var_index = {name: i for i, name in enumerate(var_names)}
VarIndex(var_names) ==
    [n \in {var_names[j] : j \in 1..Len(var_names)} |->
        (CHOOSE j \in 1..Len(var_names) :
            var_names[j] = n /\ \A k \in (j + 1)..Len(var_names) : var_names[k] # n) - 1]

\* DenseRow that writes every coefficient one position to the right
DenseRow_Shifted(coeffs, var_index, n) ==
    [i \in 1..n |->
        IF \E j \in 1..Len(coeffs) : var_index[coeffs[j].var] = i - 2
        THEN coeffs[CHOOSE j \in 1..Len(coeffs) : var_index[coeffs[j].var] = i - 2].coeff
        ELSE Fin(0)]

\* row = [0.0] * n; for v, coef in coeffs.items(): row[var_index[v]] = float(coef)
\* (position i of the Python list is element i + 1 of the sequence)
DenseRow(coeffs, var_index, n) ==
    [i \in 1..n |->
        IF \E j \in 1..Len(coeffs) : var_index[coeffs[j].var] = i - 1
        THEN coeffs[CHOOSE j \in 1..Len(coeffs) :
                        /\ var_index[coeffs[j].var] = i - 1
                        /\ \A k \in (j + 1)..Len(coeffs) :
                               var_index[coeffs[k].var] # i - 1].coeff
        ELSE Fin(0)]

\* var_index[v] raises KeyError
MissingKey(coeffs, var_index) ==
    \E j \in 1..Len(coeffs) : coeffs[j].var \notin DOMAIN var_index

NoArrays == [raised |-> "not called"]

build_model_arrays(vs, obj, cons) ==
    LET var_names == VarNameList(vs)
        var_index == VarIndex(var_names)
        n == Len(var_names)
    IN  IF \/ MissingKey(obj.coeffs, var_index)
           \/ \E r \in 1..Len(cons) : MissingKey(cons[r].coeffs, var_index)
        THEN [raised |-> "KeyError"]
        ELSE [raised |-> "none",
              var_names |-> var_names,
              c |-> DenseRow(obj.coeffs, var_index, n),
              sense |-> Lower(obj.sense),
              A |-> [r \in 1..Len(cons) |-> DenseRow(cons[r].coeffs, var_index, n)],
              senses |-> [r \in 1..Len(cons) |-> cons[r].sense],
              b |-> [r \in 1..Len(cons) |-> cons[r].rhs],
              low |-> [j \in 1..n |-> IF vs[j].low # NoneVal THEN vs[j].low ELSE Fin(0)],
              up |-> [j \in 1..n |-> vs[j].up],
              vtypes |-> [j \in 1..n |-> vs[j].type],
              constr_names |-> [r \in 1..Len(cons) |-> cons[r].name],
              var_index |-> var_index]

----------------------------------------------------------------------------
(* Inputs.                                                                 *)

\* Records of variables.csv (name,low,up,type) as csv.DictReader yields
\* them; a record with fewer fields than the header has None for the rest.
VarRows ==
    {
      \* x,0,10,continuous
      [ name |-> <<"x">>,
        low |-> <<"0">>,
        up |-> <<"1", "0">>,
        type |-> <<"c", "o", "n", "t", "i", "n", "u", "o", "u", "s">> ],
      \* z,,,INTEGER
      [ name |-> <<"z">>,
        low |-> <<>>,
        up |-> <<>>,
        type |-> <<"I", "N", "T", "E", "G", "E", "R">> ],
      \* z,0,nan,binary
      [ name |-> <<"z">>,
        low |-> <<"0">>,
        up |-> <<"n", "a", "n">>,
        type |-> <<"b", "i", "n", "a", "r", "y">> ],
      \* z,5,2,
      [ name |-> <<"z">>,
        low |-> <<"5">>,
        up |-> <<"2">>,
        type |-> <<>> ],
      \* z,, -1,
      [ name |-> <<"z">>,
        low |-> <<>>,
        up |-> <<" ", "-", "1">>,
        type |-> <<>> ],
      \* z,abc,,
      [ name |-> <<"z">>,
        low |-> <<"a", "b", "c">>,
        up |-> <<>>,
        type |-> <<>> ],
      \* z,0,1,int
      [ name |-> <<"z">>,
        low |-> <<"0">>,
        up |-> <<"1">>,
        type |-> <<"i", "n", "t">> ],
      \*  ,0,1,
      [ name |-> <<" ">>,
        low |-> <<"0">>,
        up |-> <<"1">>,
        type |-> <<>> ],
      \* z
      [ name |-> <<"z">>,
        low |-> NoneStr,
        up |-> NoneStr,
        type |-> NoneStr ],
      \* z,0
      [ name |-> <<"z">>,
        low |-> <<"0">>,
        up |-> NoneStr,
        type |-> NoneStr ]
    }

\* Records of objective.csv (var,coeff,sense).
ObjRows ==
    {
      \* x,3,max
      [ var |-> <<"x">>,
        coeff |-> <<"3">>,
        sense |-> <<"m", "a", "x">> ],
      \* z,2,max
      [ var |-> <<"z">>,
        coeff |-> <<"2">>,
        sense |-> <<"m", "a", "x">> ],
      \* x,1,MIN
      [ var |-> <<"x">>,
        coeff |-> <<"1">>,
        sense |-> <<"M", "I", "N">> ],
      \* y,1,max
      [ var |-> <<"y">>,
        coeff |-> <<"1">>,
        sense |-> <<"m", "a", "x">> ],
      \* x,abc,max
      [ var |-> <<"x">>,
        coeff |-> <<"a", "b", "c">>,
        sense |-> <<"m", "a", "x">> ],
      \* x
      [ var |-> <<"x">>,
        coeff |-> NoneStr,
        sense |-> NoneStr ],
      \* ,1,max
      [ var |-> <<>>,
        coeff |-> <<"1">>,
        sense |-> <<"m", "a", "x">> ],
      \* z,2,minimize
      [ var |-> <<"z">>,
        coeff |-> <<"2">>,
        sense |-> <<"m", "i", "n", "i", "m", "i", "z", "e">> ]
    }

\* Records of constraints.csv (name,expr,sense,rhs).
ConRows ==
    {
      \* a,2*x + z,<=,4
      [ name |-> <<"a">>,
        expr |-> <<"2", "*", "x", " ", "+", " ", "z">>,
        sense |-> <<"<", "=">>,
        rhs |-> <<"4">> ],
      \* a,x+5,>=,3
      [ name |-> <<"a">>,
        expr |-> <<"x", "+", "5">>,
        sense |-> <<">", "=">>,
        rhs |-> <<"3">> ],
      \* ,x,==,0
      [ name |-> <<>>,
        expr |-> <<"x">>,
        sense |-> <<"=", "=">>,
        rhs |-> <<"0">> ],
      \* a#2,x,<=,1
      [ name |-> <<"a", "#", "2">>,
        expr |-> <<"x">>,
        sense |-> <<"<", "=">>,
        rhs |-> <<"1">> ],
      \* c_3,-z+2,<=,1
      [ name |-> <<"c", "_", "3">>,
        expr |-> <<"-", "z", "+", "2">>,
        sense |-> <<"<", "=">>,
        rhs |-> <<"1">> ],
      \* a,x,<=,nan
      [ name |-> <<"a">>,
        expr |-> <<"x">>,
        sense |-> <<"<", "=">>,
        rhs |-> <<"n", "a", "n">> ],
      \* a,x - 3,<=,1
      [ name |-> <<"a">>,
        expr |-> <<"x", " ", "-", " ", "3">>,
        sense |-> <<"<", "=">>,
        rhs |-> <<"1">> ],
      \* a,x,<,1
      [ name |-> <<"a">>,
        expr |-> <<"x">>,
        sense |-> <<"<">>,
        rhs |-> <<"1">> ],
      \* a,x,<=,abc
      [ name |-> <<"a">>,
        expr |-> <<"x">>,
        sense |-> <<"<", "=">>,
        rhs |-> <<"a", "b", "c">> ],
      \* a,y,<=,1
      [ name |-> <<"a">>,
        expr |-> <<"y">>,
        sense |-> <<"<", "=">>,
        rhs |-> <<"1">> ],
      \* a,x,<=
      [ name |-> <<"a">>,
        expr |-> <<"x">>,
        sense |-> <<"<", "=">>,
        rhs |-> NoneStr ],
      \* a
      [ name |-> <<"a">>,
        expr |-> NoneStr,
        sense |-> NoneStr,
        rhs |-> NoneStr ],
      \* a,x+0*y+w-w,<=,1
      [ name |-> <<"a">>,
        expr |-> <<"x", "+", "0", "*", "y", "+", "w", "-", "w">>,
        sense |-> <<"<", "=">>,
        rhs |-> <<"1">> ]
    }

\* Characters of the expressions handed directly to parse_linear_expr.
ExprChars == {"x", "z", "0", "2", "*", "+", "-", " ", UMinus}

ExprStrings == UNION {[1..n -> ExprChars] : n \in 0..MaxExprLen} \cup {NoneStr}

NoResult == [ok |-> FALSE, err |-> "not called", coeffs |-> <<>>, const |-> Fin(0)]

----------------------------------------------------------------------------
(* The pipeline of main.py: parse_data_dir, then build_model_arrays.       *)

Init ==
    /\ pc = "start"
    /\ line = 0
    /\ vars_rows = <<>>
    /\ obj_rows = <<>>
    /\ con_rows = <<>>
    /\ variables = <<>>
    /\ obj_coeffs = <<>>
    /\ senses = {}
    /\ constraints = <<>>
    /\ seen_names = {}
    /\ warnings = <<>>
    /\ error = NoError
    /\ objective = NoObjective
    /\ obj_path = ""
    /\ arrays = NoArrays
    /\ expr = <<>>
    /\ result = NoResult

\* lines 146-157
OpenDataDir ==
    /\ pc = "start"
    /\ \E fs \in FsStates :
        LET e == OpenError(fs)
        IN  /\ pc' = IF e.kind = "none" THEN "read_variables" ELSE "failed"
            /\ error' = e
            /\ obj_path' = IF e.kind = "none" THEN _first_existing(fs) ELSE obj_path
    /\ UNCHANGED <<tables, line, variables, obj_coeffs, senses, constraints, seen_names,
                   warnings, objective, arrays, expr, result>>

\* line 160
ReadVariables ==
    /\ pc = "read_variables"
    /\ \E file \in CsvFiles :
        LET e == _read_csv_dicts(var_path, file)
        IN  /\ pc' = IF e.kind = "none" THEN "variables" ELSE "failed"
            /\ error' = e
    /\ line' = 2
    /\ UNCHANGED <<tables, variables, obj_coeffs, senses, constraints, seen_names,
                   warnings, objective, obj_path, arrays, expr, result>>

\* the outcome r of one pass of the variables loop
VariablesRowDone(r) ==
    /\ pc' = IF r.error.kind = "none" THEN "variables" ELSE "failed"
    /\ error' = r.error
    /\ variables' = r.variables

\* lines 163-181, one record
VariablesRow ==
    /\ pc = "variables"
    /\ line - 2 < MaxVarRows
    /\ \E raw \in VarRows :
        /\ vars_rows' = Append(vars_rows, CleanRow(raw))
        /\ VariablesRowDone(variables_row(CleanRow(raw), line, variables))
    /\ line' = line + 1
    /\ UNCHANGED <<obj_rows, con_rows, obj_coeffs, senses, constraints, seen_names, warnings,
                   objective, obj_path, arrays, expr, result>>

\* lines 183-184, after the last record
VariablesEnd ==
    /\ pc = "variables"
    /\ IF variables = <<>>
       THEN pc' = "failed" /\ error' = Raised("ParseError", var_path, 0, "", 0)
       ELSE pc' = "read_objective" /\ error' = error
    /\ UNCHANGED <<tables, line, variables, obj_coeffs, senses, constraints, seen_names,
                   warnings, objective, obj_path, arrays, expr, result>>

\* line 187
ReadObjective ==
    /\ pc = "read_objective"
    /\ \E file \in CsvFiles :
        LET e == _read_csv_dicts(obj_path, file)
        IN  /\ pc' = IF e.kind = "none" THEN "objective" ELSE "failed"
            /\ error' = e
    /\ line' = 2
    /\ UNCHANGED <<tables, variables, obj_coeffs, senses, constraints, seen_names,
                   warnings, objective, obj_path, arrays, expr, result>>

\* the outcome r of one pass of the objective loop
ObjectiveRowDone(r) ==
    /\ pc' = IF r.error.kind = "none" THEN "objective" ELSE "failed"
    /\ error' = r.error
    /\ obj_coeffs' = r.obj_coeffs
    /\ senses' = r.senses

\* lines 190-203, one record
ObjectiveRow ==
    /\ pc = "objective"
    /\ line - 2 < MaxObjRows
    /\ \E raw \in ObjRows :
        /\ obj_rows' = Append(obj_rows, CleanRow(raw))
        /\ ObjectiveRowDone(objective_row(CleanRow(raw), line, obj_path, variables,
                                          obj_coeffs, senses))
    /\ line' = line + 1
    /\ UNCHANGED <<vars_rows, con_rows, variables, constraints, seen_names, warnings, objective,
                   obj_path, arrays, expr, result>>

\* lines 205-209, after the last record
ObjectiveEnd ==
    /\ pc = "objective"
    /\ LET e == objective_end(obj_path, obj_coeffs, senses)
       IN  IF e.kind = "none"
           THEN /\ pc' = "read_constraints"
                /\ error' = error
                /\ objective' = [sense |-> CHOOSE s \in senses : TRUE,
                                 coeffs |-> obj_coeffs]
                /\ senses' = {}
           ELSE /\ pc' = "failed"
                /\ error' = e
                /\ UNCHANGED <<objective, senses>>
    /\ UNCHANGED <<tables, line, variables, obj_coeffs, constraints, seen_names,
                   warnings, obj_path, arrays, expr, result>>

\* line 212
ReadConstraints ==
    /\ pc = "read_constraints"
    /\ \E file \in CsvFiles :
        LET e == _read_csv_dicts(con_path, file)
        IN  /\ pc' = IF e.kind = "none" THEN "constraints" ELSE "failed"
            /\ error' = e
    /\ line' = 2
    /\ UNCHANGED <<tables, variables, obj_coeffs, senses, constraints, seen_names,
                   warnings, objective, obj_path, arrays, expr, result>>

\* the outcome r of one pass of the constraints loop
ConstraintRowDone(r) ==
    /\ pc' = IF r.error.kind = "none" THEN "constraints" ELSE "failed"
    /\ error' = r.error
    /\ constraints' = r.constraints
    /\ seen_names' = r.seen_names
    /\ warnings' = r.warnings

\* lines 215-263, one record
ConstraintRow ==
    /\ pc = "constraints"
    /\ line - 2 < MaxConRows
    /\ \E raw \in ConRows :
        /\ con_rows' = Append(con_rows, CleanRow(raw))
        /\ ConstraintRowDone(constraint_row(CleanRow(raw), line, variables,
                                            constraints, seen_names, warnings))
    /\ line' = line + 1
    /\ UNCHANGED <<vars_rows, obj_rows, variables, obj_coeffs, senses, objective, obj_path, arrays,
                   expr, result>>

\* lines 265-272, after the last record: the Model is returned
ConstraintsEnd ==
    /\ pc = "constraints"
    /\ IF constraints = <<>>
       THEN pc' = "failed" /\ error' = Raised("ParseError", con_path, 0, "", 0)
       ELSE pc' = "parsed" /\ error' = error
    /\ UNCHANGED <<tables, line, variables, obj_coeffs, senses, constraints, seen_names,
                   warnings, objective, obj_path, arrays, expr, result>>

\* main.py line 51: array = build_model_arrays(model)
BuildModelArrays ==
    /\ pc = "parsed"
    /\ arrays' = build_model_arrays(variables, objective, constraints)
    /\ pc' = "built"
    /\ UNCHANGED <<tables, line, variables, obj_coeffs, senses, constraints, seen_names,
                   warnings, error, objective, obj_path, expr, result>>

Next ==
    \/ OpenDataDir
    \/ ReadVariables
    \/ VariablesRow
    \/ VariablesEnd
    \/ ReadObjective
    \/ ObjectiveRow
    \/ ObjectiveEnd
    \/ ReadConstraints
    \/ ConstraintRow
    \/ ConstraintsEnd
    \/ BuildModelArrays

Spec == Init /\ [][Next]_vars

----------------------------------------------------------------------------
(* Direct calls of parse_linear_expr on every short expression.            *)

ExprInit ==
    /\ pc = "expr"
    /\ line = 0
    /\ vars_rows = <<>>
    /\ obj_rows = <<>>
    /\ con_rows = <<>>
    /\ variables = <<>>
    /\ obj_coeffs = <<>>
    /\ senses = {}
    /\ constraints = <<>>
    /\ seen_names = {}
    /\ warnings = <<>>
    /\ error = NoError
    /\ objective = NoObjective
    /\ obj_path = ""
    /\ arrays = NoArrays
    /\ expr \in ExprStrings
    /\ result = NoResult

CallParseLinearExpr ==
    /\ pc = "expr"
    /\ result' = parse_linear_expr(expr)
    /\ pc' = "expr_done"
    /\ UNCHANGED <<tables, line, variables, obj_coeffs, senses, constraints, seen_names,
                   warnings, error, objective, obj_path, arrays, expr>>

ExprNext == CallParseLinearExpr

ExprSpec == ExprInit /\ [][ExprNext]_vars

----------------------------------------------------------------------------
(* Properties of the constraint names.                                     *)

\* The Model was returned by parse_data_dir.
Parsed == pc \in {"parsed", "built"}

S_a == <<"a">>
S_a2 == <<"a", "#", "2">>
S_a3 == <<"a", "#", "3">>

\* f"{n}#{k}"
Suffixed(n, k) == n \o <<"#">> \o Str(k)

\* the canonical names given before record number i of the table
EarlierNames(i) == {constraints[j].name : j \in 1..(i - 1)}

\* how many records up to number i request the name of record number i
Occurrence(i) ==
    Cardinality({j \in 1..i :
                    constraints[j].original_name = constraints[i].original_name})

\* name, name#2, name#3, ...
NthName(n, k) == IF k = 1 THEN n ELSE Suffixed(n, k)

\* C1: the canonical names of the stored constraints are pairwise distinct,
\* whatever the records request: blank names (c_<line>), repeated names and
\* names that already have the form base#k.
C1_CanonicalNamesDistinct ==
    \A i, j \in 1..Len(constraints) :
        i # j => constraints[i].name # constraints[j].name

\* C1 witness: a Model was returned for a table in which a blank name was
\* generated as c_<line>, collided with an earlier record and was renamed,
\* and in which a record requests a name of the form base#k.
C1_Witness ==
    /\ Parsed
    /\ \E i \in 1..Len(constraints) :
        /\ con_rows[i].name = <<>>
        /\ constraints[i].original_name = <<"c", "_">> \o Str(i + 1)
        /\ constraints[i].name = Suffixed(constraints[i].original_name, 2)
    /\ \E j \in 1..Len(constraints) : constraints[j].original_name = S_a2

\* every stored constraint keeps the name its record requested
OriginalNameKept ==
    \A i \in 1..Len(constraints) :
        constraints[i].original_name = RequestedName(con_rows[i], i + 1)

\* a record of the constraints table that makes the parse fail also makes
\* it fail when no name has been seen, that is when nothing is renamed
RenameNeverFails ==
    (pc = "failed" /\ error.rec_path = con_path) =>
        constraint_row(con_rows[Len(con_rows)], error.rec_line, variables,
                       constraints, {}, <<>>).error.kind # "none"

\* C2 as stated: the k occurrences of a requested name get, in file order,
\* name, name#2, ..., name#k; original_name keeps the requested name; a
\* rename never makes the parse fail.
C2_OccurrencesNumbered ==
    /\ \A i \in 1..Len(constraints) :
        constraints[i].name = NthName(constraints[i].original_name, Occurrence(i))
    /\ OriginalNameKept
    /\ RenameNeverFails

\* no stored record requests a name of the form n#k (k >= 2) where n is
\* requested by a stored record too
NoRequestedSuffix ==
    \A i, j \in 1..Len(constraints) :
        \A k \in 2..(Len(constraints) + 1) :
            constraints[j].original_name # Suffixed(constraints[i].original_name, k)

\* C2 amended: a record gets its requested name when no earlier canonical
\* name equals it, and otherwise requested#k for the least k >= 2 such that
\* requested#k is no earlier canonical name; when no requested name has the
\* form n#k of another requested name n, the occurrences of a name get
\* name, name#2, ..., name#k in file order; original_name keeps the
\* requested name; a rename never makes the parse fail.
C2_LeastFreeSuffix ==
    /\ \A i \in 1..Len(constraints) :
        LET n == constraints[i].original_name
        IN  /\ n \notin EarlierNames(i) => constraints[i].name = n
            /\ n \in EarlierNames(i) =>
                \E k \in 2..(i + 1) :
                    /\ constraints[i].name = Suffixed(n, k)
                    /\ Suffixed(n, k) \notin EarlierNames(i)
                    /\ \A h \in 2..(k - 1) : Suffixed(n, h) \in EarlierNames(i)
    /\ NoRequestedSuffix =>
        \A i \in 1..Len(constraints) :
            constraints[i].name = NthName(constraints[i].original_name, Occurrence(i))
    /\ OriginalNameKept
    /\ RenameNeverFails

\* C2 witness: a Model was returned for a table whose first three records
\* all request the name a; they are named a, a#2, a#3 and two warnings
\* were printed.
C2_Witness ==
    /\ Parsed
    /\ Len(constraints) >= 3
    /\ \A i \in 1..3 : constraints[i].original_name = S_a
    /\ <<constraints[1].name, constraints[2].name, constraints[3].name>> = <<S_a, S_a2, S_a3>>
    /\ Len(warnings) >= 2

----------------------------------------------------------------------------
(* Properties of the stored constraints and variables.                     *)

\* the value of the left-hand side sum(coeff[v] * x[v]) for an assignment
\* x that gives every variable the value 0 or 1: ones is the set of the
\* variables that are 1
RECURSIVE LhsValue(_, _)
LhsValue(coeffs, ones) ==
    IF coeffs = <<>> THEN Fin(0)
    ELSE FAdd(IF Head(coeffs).var \in ones THEN Head(coeffs).coeff ELSE Fin(0),
              LhsValue(Tail(coeffs), ones))

\* lhs OP rhs
Compare(lhs, sense, rhs) ==
    IF sense = S_le THEN FLe(lhs, rhs)
    ELSE IF sense = S_ge THEN FLe(rhs, lhs)
    ELSE FEq(lhs, rhs)

\* C3: for every stored constraint, rhs = raw_rhs - moved_const where
\* moved_const is the sum of the bare constants of its expr, rhs +
\* moved_const = raw_rhs, the operator is the one of the record, and
\* "coeffs OP rhs" is equivalent to "expr OP raw_rhs" (here on every 0/1
\* assignment of the variables).
C3_ConstantMigrationExact ==
    \A i \in 1..Len(constraints) :
        LET c == constraints[i]
        IN  /\ c.raw_expr = con_rows[i].expr
            /\ c.moved_const = parse_linear_expr(c.raw_expr).const
            /\ c.sense = con_rows[i].sense
            /\ FEq(c.rhs, FSub(c.raw_rhs, c.moved_const))
            /\ FEq(FAdd(c.rhs, c.moved_const), c.raw_rhs)
            /\ \A ones \in SUBSET DictKeys(c.coeffs) :
                   Compare(LhsValue(c.coeffs, ones), c.sense, c.rhs)
                   <=> Compare(FAdd(LhsValue(c.coeffs, ones), c.moved_const),
                               c.sense, c.raw_rhs)

\* C4: once parse_data_dir has returned a Model, every key of the objective
\* coefficient map and of every constraint's coefficient map is a declared
\* variable, and build_model_arrays raises no KeyError on it.
C4_ReferencedVariablesDeclared ==
    /\ Parsed =>
        /\ DictKeys(objective.coeffs) \subseteq VarNames(variables)
        /\ \A i \in 1..Len(constraints) :
               DictKeys(constraints[i].coeffs) \subseteq VarNames(variables)
    /\ pc = "built" => arrays.raised = "none"

\* C4 witness: arrays were built from a Model with two variables whose
\* objective and constraints reference both.
C4_Witness ==
    /\ pc = "built"
    /\ arrays.raised = "none"
    /\ Len(variables) = 2
    /\ DictKeys(objective.coeffs) = VarNames(variables)
    /\ \E i \in 1..Len(constraints) :
           DictKeys(constraints[i].coeffs) = VarNames(variables)

\* C5: in the arrays, var_index is a bijection between the variable names
\* and 0..n-1 with var_index[var_names[i]] = i, and var_names lists the
\* variables in the order of the variables table.
C5_VarIndexBijection ==
    pc = "built" =>
        LET n == Len(arrays.var_names)
        IN  /\ DOMAIN arrays.var_index = VarNames(variables)
            /\ {arrays.var_index[v] : v \in DOMAIN arrays.var_index} = 0..(n - 1)
            /\ \A v, w \in DOMAIN arrays.var_index :
                   arrays.var_index[v] = arrays.var_index[w] => v = w
            /\ \A i \in 0..(n - 1) : arrays.var_index[arrays.var_names[i + 1]] = i
            /\ n = Len(vars_rows)
            /\ \A i \in 1..n : arrays.var_names[i] = vars_rows[i].name

\* C5 witness: arrays were built for a variables table that declares z
\* before x.
C5_Witness ==
    /\ pc = "built"
    /\ arrays.raised = "none"
    /\ arrays.var_names = <<<<"z">>, <<"x">>>>

\* C6: the arrays are the dense projection of the Model: c, low, up, vtypes
\* have length n; A has m rows of length n; senses, b, constr_names have
\* length m and follow the order of the constraints; c[i] and A[r][i] are
\* the coefficient of var_names[i] where it is referenced and 0 elsewhere.
C6_DenseProjection ==
    pc = "built" =>
        LET n == Len(variables)
            m == Len(constraints)
        IN  /\ Len(arrays.var_names) = n
            /\ Len(arrays.c) = n /\ Len(arrays.low) = n
            /\ Len(arrays.up) = n /\ Len(arrays.vtypes) = n
            /\ Len(arrays.A) = m /\ Len(arrays.senses) = m
            /\ Len(arrays.b) = m /\ Len(arrays.constr_names) = m
            /\ \A i \in 1..n :
                   arrays.c[i] = DictGet(objective.coeffs, arrays.var_names[i], Fin(0))
            /\ \A r \in 1..m :
                   /\ Len(arrays.A[r]) = n
                   /\ \A i \in 1..n :
                          arrays.A[r][i] =
                              DictGet(constraints[r].coeffs, arrays.var_names[i], Fin(0))
                   /\ arrays.senses[r] = constraints[r].sense
                   /\ arrays.b[r] = constraints[r].rhs
                   /\ arrays.constr_names[r] = constraints[r].name

\* C6 witness: arrays were built for two variables and at least two
\* constraints, one of which leaves a variable out (a zero of A beside a
\* nonzero), with an objective that leaves a variable out as well.
C6_Witness ==
    /\ pc = "built"
    /\ arrays.raised = "none"
    /\ Len(variables) = 2
    /\ Len(constraints) >= 2
    /\ \E i \in 1..2 : arrays.c[i] = Fin(0)
    /\ \E i \in 1..2 : arrays.c[i] # Fin(0)
    /\ \E r \in 1..Len(constraints) :
           \E i, j \in 1..2 : arrays.A[r][i] = Fin(0) /\ arrays.A[r][j] # Fin(0)


\* the record has both bounds, they are numbers, and up < low
UpBelowLow(row) ==
    /\ row.low \notin {<<>>, NoneStr}
    /\ row.up \notin {<<>>, NoneStr}
    /\ PyFloat(row.low).ok
    /\ PyFloat(row.up).ok
    /\ FLt(PyFloat(row.up).val, PyFloat(row.low).val)

\* the parse failed on the last record of the variables table, and not
\* because of its name, its type or a field that is no float: it failed
\* the bound check of line 178
FailedBoundCheck ==
    /\ pc = "failed"
    /\ error.rec_path = var_path
    /\ LET row == vars_rows[Len(vars_rows)]
       IN  /\ ~Falsy(row.name)
           /\ ~Declared(row.name, variables)
           /\ (IF Falsy(row.type) THEN S_continuous ELSE Lower(row.type)) \in allowed_types
           /\ _parse_float(row.low, TRUE).raised = "none"
           /\ _parse_float(row.up, TRUE).raised = "none"

\* C7: for every stored variable low is a number (0 when the low field was
\* empty), up is absent or low <= up, an empty up field stays absent (None)
\* through build_model_arrays; a record with both bounds and up < low fails
\* with ParseError, and only such records fail the bound check.
C7_BoundsInvariant ==
    /\ \A j \in 1..Len(variables) :
        /\ variables[j].low.k \in {"fin", "inf"}
        /\ vars_rows[j].low = <<>> => variables[j].low = Fin(0)
        /\ variables[j].up = NoneVal \/ FLe(variables[j].low, variables[j].up)
        /\ vars_rows[j].up = <<>> => variables[j].up = NoneVal
        /\ ~UpBelowLow(vars_rows[j])
        /\ pc = "built" =>
            /\ arrays.low[j] = variables[j].low
            /\ arrays.up[j] = variables[j].up
    /\ \A j \in 1..Len(vars_rows) :
        (UpBelowLow(vars_rows[j]) /\ j > Len(variables)) =>
            (pc = "failed" /\ error.kind = "ParseError")
    /\ FailedBoundCheck => UpBelowLow(vars_rows[Len(vars_rows)])

\* C9: no exception other than ParseError leaves parse_data_dir.
C9_OnlyParseErrorEscapes == error.kind \in {"none", "ParseError"}

\* C10: a ParseError raised because of a record names the path of the
\* table and the line of the record, and the first violation ends the
\* parse with no Model returned.
C10_RecordErrorsLocated ==
    /\ (error.kind = "ParseError" /\ error.rec_line # 0) =>
        (error.path = error.rec_path /\ error.lineno = error.rec_line)
    /\ error.kind # "none" => (pc = "failed" /\ arrays = NoArrays)

----------------------------------------------------------------------------
(* The affine expressions of spec 4.1, read independently of the code:     *)
(* signed additive terms, each [sign][coefficient][*]variable or a bare    *)
(* signed constant, with blanks allowed around the parts of a term.        *)

SignChars == {"+", "-", UMinus}

RECURSIVE RefTerms(_, _)
\* the terms of the text s that follows a sign (neg: the sign was a minus)
RefTerms(s, neg) ==
    IF \A i \in 1..Len(s) : s[i] \notin SignChars
    THEN <<[neg |-> neg, body |-> Strip(s)]>>
    ELSE LET p == CHOOSE i \in 1..Len(s) :
                      s[i] \in SignChars /\ \A j \in 1..(i - 1) : s[j] \notin SignChars
         IN  <<[neg |-> neg, body |-> Strip(SubSeq(s, 1, p - 1))]>>
             \o RefTerms(SubSeq(s, p + 1, Len(s)), s[p] # "+")

\* the signed terms of an expression; an expression may begin with a sign
RefTermList(s) ==
    IF RefTerms(s, FALSE)[1].body = <<>> /\ Len(RefTerms(s, FALSE)) > 1
    THEN Tail(RefTerms(s, FALSE))
    ELSE RefTerms(s, FALSE)

\* the longest prefix of digits of a term
RefDigits(body) ==
    SubSeq(body, 1, CHOOSE n \in 0..Len(body) :
                        /\ \A i \in 1..n : body[i] \in Digits
                        /\ (n = Len(body) \/ body[n + 1] \notin Digits))

\* what follows the coefficient: blanks, an optional "*" after a
\* coefficient, blanks, and then the variable
RefAfterStar(rest, hasDigits) ==
    IF hasDigits /\ rest # <<>> /\ rest[1] = "*" THEN LStrip(Tail(rest)) ELSE rest

RefVariable(body) ==
    RefAfterStar(LStrip(SubSeq(body, Len(RefDigits(body)) + 1, Len(body))),
                 RefDigits(body) # <<>>)

RefIsIdentifier(w) ==
    /\ w # <<>>
    /\ w[1] \in LowerLetters \cup UpperLetters \cup {"_"}
    /\ \A i \in 1..Len(w) : w[i] \in LowerLetters \cup UpperLetters \cup Digits \cup {"_"}

RefIsConstant(body) == body # <<>> /\ RefDigits(body) = body

RefIsVarTerm(body) == ~RefIsConstant(body) /\ RefIsIdentifier(RefVariable(body))

WellFormed(s) ==
    /\ s # NoneStr
    /\ \A i \in 1..Len(RefTermList(s)) :
           RefIsConstant(RefTermList(s)[i].body) \/ RefIsVarTerm(RefTermList(s)[i].body)

\* the signed number a term contributes
RefAmount(t) ==
    IF RefDigits(t.body) = <<>> THEN (IF t.neg THEN -1 ELSE 1)
    ELSE IF t.neg THEN -DecVal(RefDigits(t.body)) ELSE DecVal(RefDigits(t.body))

RECURSIVE RefSum(_, _)
\* the sum of the terms of variable v; v = <<>> stands for the constants
RefSum(terms, v) ==
    IF terms = <<>> THEN 0
    ELSE (IF (v = <<>> /\ RefIsConstant(Head(terms).body))
             \/ (v # <<>> /\ RefIsVarTerm(Head(terms).body)
                 /\ RefVariable(Head(terms).body) = v)
          THEN RefAmount(Head(terms)) ELSE 0)
         + RefSum(Tail(terms), v)

RefVars(terms) ==
    {RefVariable(terms[i].body) : i \in {j \in 1..Len(terms) : RefIsVarTerm(terms[j].body)}}

RefNonZeroVars(terms) == {v \in RefVars(terms) : RefSum(terms, v) # 0}

\* C8: for an expression made of well-formed terms parse_linear_expr
\* returns the per-variable sums of the coefficients without the variables
\* whose sum is zero, and the sum of the bare constants; it raises
\* ParseError exactly when no variable is left and the constant is zero.
C8_ExprMeaning ==
    (pc = "expr_done" /\ WellFormed(expr)) =>
        LET terms == RefTermList(expr)
        IN  /\ result.ok <=> (RefNonZeroVars(terms) # {} \/ RefSum(terms, <<>>) # 0)
            /\ result.ok =>
                /\ DictKeys(result.coeffs) = RefNonZeroVars(terms)
                /\ \A v \in RefNonZeroVars(terms) :
                       DictGet(result.coeffs, v, Fin(0)) = Fin(RefSum(terms, v))
                /\ result.const = Fin(RefSum(terms, <<>>))

----------------------------------------------------------------------------
(* The kind of a variable as spec 4.1 reads the type field.                *)

S_real == <<"r", "e", "a", "l">>
S_cont == <<"c", "o", "n", "t">>
S_int == <<"i", "n", "t">>
S_bin == <<"b", "i", "n">>
S_bool == <<"b", "o", "o", "l">>

\* continuous/real/cont, integer/int, binary/bin/bool without regard to
\* case; continuous for an empty, absent or unrecognized field
KindOf(type) ==
    IF Falsy(type) THEN S_continuous
    ELSE IF Lower(type) \in {S_integer, S_int} THEN S_integer
    ELSE IF Lower(type) \in {S_binary, S_bin, S_bool} THEN S_binary
    ELSE S_continuous

\* the parse failed on the last record read from the variables table, and
\* the same record with an empty type field would have been stored
TypeFieldFailed ==
    /\ pc = "failed"
    /\ error.rec_path = var_path
    /\ error.rec_line = Len(vars_rows) + 1
    /\ Len(vars_rows) > 0
    /\ variables_row([vars_rows[Len(vars_rows)] EXCEPT !.type = <<>>],
                     Len(vars_rows) + 1, variables).error = NoError

\* C11: every stored variable has the kind that its type field stands for
\* (continuous/real/cont, integer/int, binary/bin/bool, case-insensitive;
\* continuous when the field is empty or unrecognized), and the type field
\* never makes the parse fail.
C11_KindSynonyms ==
    /\ \A j \in 1..Len(variables) : variables[j].type = KindOf(vars_rows[j].type)
    /\ ~TypeFieldFailed

\* C12: every variable named by a term of a stored constraint's expr is
\* declared in the variables table, terms that cancel or carry a zero
\* coefficient included (a record naming an undeclared variable is
\* rejected, never stored).
C12_UndeclaredTermRejected ==
    \A i \in 1..Len(constraints) :
        RefVars(RefTermList(constraints[i].raw_expr)) \subseteq VarNames(variables)

\* C13: parse_linear_expr raises ParseError for every expression with a
\* term that is neither [sign][coefficient][*]variable nor a bare signed
\* constant.
C13_MalformedTermRejected ==
    (pc = "expr_done" /\ ~WellFormed(expr)) => ~result.ok

====
